---- MODULE Spec2Model ----
(***************************************************************************)
(* A model of the readwise client library.  The sources hold two revisions *)
(* of the client: src/src/lib.rs (free function auth, methods books,       *)
(* highlights, book, highlight, create, update, delete, errors built with  *)
(* anyhow!) and src/src/client.rs (Client::new and the same methods over   *)
(* the private request method, errors of the enum in error.rs), plus the   *)
(* free functions of request.rs and auth.rs that sit between the two.      *)
(* The variable crate says which revision the program is built from.       *)
(*                                                                         *)
(* One step of the model is one HTTP exchange together with all the local  *)
(* computation of the handler up to its next exchange or its return.  The  *)
(* server is the environment: it answers each request with a transport     *)
(* failure or with a status and a body drawn from small sets.              *)
(* blocking::Client::builder().build() is taken to succeed: its failure    *)
(* does not depend on any input of the program.  A Client is obtained from *)
(* Client::new or auth only, so the token it holds has passed              *)
(* HeaderValue::from_str once.  The server answers a follow-up GET of      *)
(* create_highlights for id with the highlight of that id, or fails.       *)
(***************************************************************************)
EXTENDS Integers, Sequences, FiniteSets, TLC

VARIABLES crate, client, pc, op, log, pending, fetched, result

vars == <<crate, client, pc, op, log, pending, fetched, result>>

(***************************************************************************)
(* Bounds of the model.                                                    *)
(***************************************************************************)
MaxRecords == 2
MaxIds == 2
MaxResults == 2
MaxPage == 2

(***************************************************************************)
(* Rust values: Option, Result, HashMap (a set of <<key, value>> pairs).   *)
(***************************************************************************)
None == <<>>
Some(x) == <<x>>

Ok(v) == [tag |-> "ok", val |-> v]
Err(e) == [tag |-> "err", val |-> e]
Panic == [tag |-> "panic", val |-> <<>>]
Running == [tag |-> "running", val |-> <<>>]

HasKey(m, k) == \E p \in m : p[1] = k
Get(m, k) == (CHOOSE p \in m : p[1] = k)[2]

SeqsUpTo(S, n) == UNION {[1..k -> S] : k \in 0..n}

(***************************************************************************)
(* error.rs: the variants of Error; status is Some(code) when the value    *)
(* holds the HTTP status and None otherwise, info holds what else the      *)
(* value is built from.  An anyhow! error of lib.rs is the message it      *)
(* formats: its text, and the status or the id formatted into it.          *)
(***************************************************************************)
Error(kind, status, info) == [kind |-> kind, status |-> status, info |-> info]
ClientError == Error("Client", None, <<>>)
DeserializeError == Error("Deserialize", None, <<>>)
HeaderValueError == Error("HeaderValue", None, <<>>)
UnsupportedRequest(method) == Error("UnsupportedRequest", None, <<method>>)
BadRequest(status) == Error("BadRequest", Some(status), <<>>)

AnyhowReqwest == Error("anyhow:reqwest", None, <<>>)
AnyhowSerde == Error("anyhow:serde_json", None, <<>>)
AnyhowStatus(msg, status) == Error("anyhow", Some(status), <<msg>>)
AnyhowId(msg, id) == Error("anyhow", None, <<msg, id>>)

(***************************************************************************)
(* serde_json serialisation of the request bodies.                         *)
(***************************************************************************)
JStr(s) == [t |-> "str", v |-> s]
JArr(s) == [t |-> "arr", v |-> s]
JObj(pairs) == [t |-> "obj", v |-> pairs]

ToJsonFields(m) == JObj({<<p[1], JStr(p[2])>> : p \in m})
ToJsonList(l) == JArr([i \in 1..Len(l) |-> ToJsonFields(l[i])])
ToJsonBody(b) == JObj({<<p[1], ToJsonList(p[2])>> : p \in b})

(***************************************************************************)
(* model.rs: the records, and the response bodies the server can send.     *)
(***************************************************************************)
Book(i) == [id |-> i, title |-> "Quotes"]
Highlight(i) == [id |-> i, text |-> "hello world!"]
HighlightCreateResponse(i, ids) == [id |-> i, modified_highlights |-> ids]
Envelope(next, results) == [next |-> next, results |-> results]

Ids == {1, 2}
Pages == 1..MaxPage
Cursors == {None, Some("?page=2")}

FieldMaps == { {}, {<<"text", "hello, world!">>},
               {<<"note", "n">>, <<"text", "hello, world!">>} }
ItemLists == { <<>>, <<{<<"text", "hello world!">>}>>,
               <<{<<"text", "hello world!">>}, {}>> }

Body(t, v) == [t |-> t, v |-> v]
BNone == Body("none", <<>>)
BGarbage == Body("garbage", <<>>)
BUnreadable == Body("unreadable", <<>>)

BookBodies == {Body("Book", Book(i)) : i \in Ids}
HighlightBodies == {Body("Highlight", Highlight(i)) : i \in Ids}
BooksPages ==
    {Body("BooksResponse", Envelope(n, r)) :
        n \in Cursors, r \in SeqsUpTo({Book(i) : i \in Ids}, MaxResults)}
HighlightsPages ==
    {Body("HighlightsResponse", Envelope(n, r)) :
        n \in Cursors, r \in SeqsUpTo({Highlight(i) : i \in Ids}, MaxResults)}
IdLists == SeqsUpTo(Ids, MaxIds)
CreatedBodies ==
    {Body("Vec<HighlightCreateResponse>",
          [i \in 1..Len(l) |-> HighlightCreateResponse(i, l[i])]) :
        l \in SeqsUpTo(IdLists, MaxRecords)}

(***************************************************************************)
(* The server's answers.  A transport failure has no response; a non-2xx   *)
(* response has a body no revision reads; 204 has no content.              *)
(***************************************************************************)
Statuses == {200, 204, 401, 404}

is_success(status) == status >= 200 /\ status <= 299

TransportFailure == [fail |-> TRUE, status |-> 0, body |-> BNone]
Response(status, body) == [fail |-> FALSE, status |-> status, body |-> body]

Outcomes(bodies) ==
    {TransportFailure}
    \cup {Response(s, BNone) : s \in Statuses \ {200}}
    \cup {Response(200, b) : b \in bodies \cup {BGarbage, BUnreadable}}

(***************************************************************************)
(* Response::text and serde_json::from_str::<T>.                           *)
(***************************************************************************)
text(response) == IF response.body.t = "unreadable" THEN Err(ClientError)
                  ELSE Ok(response.body)

from_str(type, body) == IF body.t = type THEN Ok(body.v)
                        ELSE Err(DeserializeError)

(***************************************************************************)
(* url.rs and the pieces of a request.                                     *)
(***************************************************************************)
request_url == "https://readwise.io"

Url(endpoint) == <<request_url, "/api/v2">> \o endpoint

Tokens == {"token", "token2", "bad\ntoken"}

\* The header value without the scheme the API expects.
Authorization_bearer(token) == <<"Bearer ", token>>

Authorization(token) == <<"Token ", token>>

InvalidHeaderTokens == {"bad\ntoken"}

HeaderValue_from_str(value) ==
    IF value[2] \in InvalidHeaderTokens THEN Err(HeaderValueError)
    ELSE Ok(value)

Request(method, url, authorization, body) ==
    [method |-> method, url |-> url,
     headers |-> {<<"authorization", authorization>>}, body |-> body]

Exchange(req, out) == [req |-> req, out |-> out]

Called(exchanges, res) == [sent |-> exchanges, res |-> res]

(***************************************************************************)
(* client.rs: Client::request.  The header is built first, then the        *)
(* method chooses the body; unwrap and indexing panic.                     *)
(***************************************************************************)
\* match_method sending a supplied body with GET too.
match_method_get_body(method, body) ==
    CASE method = "GET" ->
            IF body = None THEN Ok(None) ELSE Ok(Some(ToJsonBody(body[1])))
      [] method = "POST" ->
            IF body = None THEN Panic ELSE Ok(Some(ToJsonBody(body[1])))
      [] method = "PATCH" ->
            IF body = None THEN Panic
            ELSE IF ~HasKey(body[1], "body") THEN Panic
            ELSE IF Len(Get(body[1], "body")) = 0 THEN Panic
            ELSE Ok(Some(ToJsonFields(Get(body[1], "body")[1])))
      [] method = "DELETE" -> Ok(None)
      [] OTHER -> Err(UnsupportedRequest(method))

\* match_method sending the whole body for PATCH, as for POST.
match_method_patch_whole(method, body) ==
    CASE method = "GET" -> Ok(None)
      [] method \in {"POST", "PATCH"} ->
            IF body = None THEN Panic ELSE Ok(Some(ToJsonBody(body[1])))
      [] method = "DELETE" -> Ok(None)
      [] OTHER -> Err(UnsupportedRequest(method))

match_method(method, body) ==
    CASE method = "GET" -> Ok(None)
      [] method = "POST" ->
            IF body = None THEN Panic ELSE Ok(Some(ToJsonBody(body[1])))
      [] method = "PATCH" ->
            IF body = None THEN Panic
            ELSE IF ~HasKey(body[1], "body") THEN Panic
            ELSE IF Len(Get(body[1], "body")) = 0 THEN Panic
            ELSE Ok(Some(ToJsonFields(Get(body[1], "body")[1])))
      [] method = "DELETE" -> Ok(None)
      [] OTHER -> Err(UnsupportedRequest(method))

status_result(out) ==
    IF out.fail THEN Err(ClientError)
    ELSE IF is_success(out.status) THEN Ok(out)
    ELSE Err(BadRequest(out.status))

\* request sending a second time when the first send fails.
request_retry(self, endpoint, method, body, out) ==
    LET header == HeaderValue_from_str(Authorization(self.access_token))
        chosen == match_method(method, body)
        x == Exchange(Request(method, Url(endpoint), header.val, chosen.val),
                      out)
    IN  IF header.tag # "ok" THEN Called(<<>>, header)
        ELSE IF chosen.tag # "ok" THEN Called(<<>>, chosen)
        ELSE Called(IF out.fail THEN <<x, x>> ELSE <<x>>, status_result(out))

request(self, endpoint, method, body, out) ==
    LET header == HeaderValue_from_str(Authorization(self.access_token))
        chosen == match_method(method, body)
    IN  IF header.tag # "ok" THEN Called(<<>>, header)
        ELSE IF chosen.tag # "ok" THEN Called(<<>>, chosen)
        ELSE Called(<<Exchange(Request(method, Url(endpoint), header.val,
                                       chosen.val), out)>>,
                    status_result(out))

(***************************************************************************)
(* request.rs: signed_request, the free function of the same shape.        *)
(***************************************************************************)
signed_request(endpoint, token, method, body, out) ==
    LET header == HeaderValue_from_str(Authorization(token))
        chosen ==
            CASE method = "GET" -> Ok(None)
              [] method = "POST" ->
                    IF body = None THEN Panic
                    ELSE Ok(Some(ToJsonBody(body[1])))
              [] method = "PATCH" ->
                    IF body = None THEN Panic
                    ELSE IF ~HasKey(body[1], "body") THEN Panic
                    ELSE IF Len(Get(body[1], "body")) = 0 THEN Panic
                    ELSE Ok(Some(ToJsonFields(Get(body[1], "body")[1])))
              [] method = "DELETE" -> Ok(None)
              [] OTHER -> Err(UnsupportedRequest(method))
    IN  IF header.tag # "ok" THEN Called(<<>>, header)
        ELSE IF chosen.tag # "ok" THEN Called(<<>>, chosen)
        ELSE Called(<<Exchange(Request(method, Url(endpoint), header.val,
                                       chosen.val), out)>>,
                    IF out.fail THEN Err(ClientError)
                    ELSE IF is_success(out.status) THEN Ok(out)
                    ELSE Err(BadRequest(out.status)))

(***************************************************************************)
(* lib.rs: signed_request.  The header value is unwrapped, an unsupported  *)
(* method panics, and the response is returned whatever its status.        *)
(***************************************************************************)
lib_signed_request(endpoint, token, method, body, out) ==
    LET header == HeaderValue_from_str(Authorization(token))
        chosen ==
            CASE method = "GET" -> Ok(None)
              [] method = "POST" ->
                    IF body = None THEN Panic
                    ELSE Ok(Some(ToJsonBody(body[1])))
              [] method = "PATCH" ->
                    IF body = None THEN Panic
                    ELSE IF ~HasKey(body[1], "body") THEN Panic
                    ELSE IF Len(Get(body[1], "body")) = 0 THEN Panic
                    ELSE Ok(Some(ToJsonFields(Get(body[1], "body")[1])))
              [] method = "DELETE" -> Ok(None)
              [] OTHER -> Panic
    IN  IF header.tag # "ok" THEN Called(<<>>, Panic)
        ELSE IF chosen.tag # "ok" THEN Called(<<>>, chosen)
        ELSE Called(<<Exchange(Request(method, Url(endpoint), header.val,
                                       chosen.val), out)>>,
                    IF out.fail THEN Err(AnyhowReqwest) ELSE Ok(out))

(***************************************************************************)
(* Authentication: Client::new (client.rs), auth (auth.rs), auth (lib.rs). *)
(***************************************************************************)
Client(access_token) == [access_token |-> access_token]

\* Client::new without the test of the status.
client_new_unchecked(access_token, out) ==
    LET header == HeaderValue_from_str(Authorization(access_token))
    IN  IF header.tag # "ok" THEN Called(<<>>, header)
        ELSE Called(<<Exchange(Request("GET", Url(<<"/auth">>), header.val,
                                       None), out)>>,
                    IF out.fail THEN Err(ClientError)
                    ELSE Ok(Client(access_token)))

client_new(access_token, out) ==
    LET header == HeaderValue_from_str(Authorization(access_token))
    IN  IF header.tag # "ok" THEN Called(<<>>, header)
        ELSE Called(<<Exchange(Request("GET", Url(<<"/auth">>), header.val,
                                       None), out)>>,
                    IF out.fail THEN Err(ClientError)
                    ELSE IF is_success(out.status)
                         THEN Ok(Client(access_token))
                    ELSE Err(BadRequest(out.status)))

auth(access_token, out) ==
    LET r == signed_request(<<"/auth">>, access_token, "GET", None, out)
    IN  IF r.res.tag # "ok" THEN r
        ELSE Called(r.sent, Ok(Client(access_token)))

lib_auth(access_token, out) ==
    LET r == lib_signed_request(<<"/auth">>, access_token, "GET", None, out)
    IN  IF r.res.tag # "ok" THEN r
        ELSE IF is_success(r.res.val.status)
             THEN Called(r.sent, Ok(Client(access_token)))
        ELSE Called(r.sent,
                    Err(AnyhowStatus("Authentication failed with status code: {}",
                                     r.res.val.status)))

(***************************************************************************)
(* client.rs: the methods of Client.  Each is the chain                    *)
(* from_str(&self.request(..)?.text()?)? over one request.                 *)
(***************************************************************************)
try_text_from_str(type, res) ==
    IF res.tag # "ok" THEN res
    ELSE LET t == text(res.val)
         IN  IF t.tag # "ok" THEN t ELSE from_str(type, t.val)

\* books returning the results of the page last to first.
books_reversed(self, page, out) ==
    LET r == request(self, <<"/books?page=", page>>, "GET", None, out)
        d == try_text_from_str("BooksResponse", r.res)
        n == IF d.tag = "ok" THEN Len(d.val.results) ELSE 0
    IN  Called(r.sent,
               IF d.tag = "ok"
               THEN Ok([i \in 1..n |-> d.val.results[n + 1 - i]])
               ELSE d)

books(self, page, out) ==
    LET r == request(self, <<"/books?page=", page>>, "GET", None, out)
        d == try_text_from_str("BooksResponse", r.res)
    IN  Called(r.sent, IF d.tag = "ok" THEN Ok(d.val.results) ELSE d)

highlights(self, page, out) ==
    LET r == request(self, <<"/highlights?page=", page>>, "GET", None, out)
        d == try_text_from_str("HighlightsResponse", r.res)
    IN  Called(r.sent, IF d.tag = "ok" THEN Ok(d.val.results) ELSE d)

book(self, id, out) ==
    LET r == request(self, <<"/books/", id>>, "GET", None, out)
    IN  Called(r.sent, try_text_from_str("Book", r.res))

highlight(self, id, out) ==
    LET r == request(self, <<"/highlights/", id>>, "GET", None, out)
    IN  Called(r.sent, try_text_from_str("Highlight", r.res))

\* flat_map with the records walked from the last to the first.
RECURSIVE flat_map_backwards(_)
flat_map_backwards(items) ==
    IF items = <<>> THEN <<>>
    ELSE flat_map_backwards(Tail(items)) \o Head(items).modified_highlights

RECURSIVE flat_map(_)
flat_map(items) ==
    IF items = <<>> THEN <<>>
    ELSE Head(items).modified_highlights \o flat_map(Tail(items))

\* create_highlights_post taking no identifiers from a POST that failed or
\* did not decode (unwrap_or_default in place of `?`).
create_highlights_post_default(self, items, out) ==
    LET body == {<<"highlights", items>>}
        r == request(self, <<"/highlights">>, "POST", Some(body), out)
        d == try_text_from_str("Vec<HighlightCreateResponse>", r.res)
    IN  Called(r.sent,
               IF d.tag = "ok" THEN Ok(<<flat_map(d.val)>>) ELSE Ok(<<<<>>>>))

\* The POST of create_highlights and the identifiers it yields: one list.
create_highlights_post(self, items, out) ==
    LET body == {<<"highlights", items>>}
        r == request(self, <<"/highlights">>, "POST", Some(body), out)
        d == try_text_from_str("Vec<HighlightCreateResponse>", r.res)
    IN  Called(r.sent, IF d.tag = "ok" THEN Ok(<<flat_map(d.val)>>) ELSE d)

\* collect_step returning what was fetched so far when a fetch fails.
collect_step_partial(acc, res) ==
    IF res.tag = "ok" THEN [done |-> FALSE, acc |-> Append(acc, res.val), res |-> res]
    ELSE [done |-> TRUE, acc |-> acc, res |-> Ok(acc)]

\* collect_step skipping a failed fetch (filter_map(Result::ok)).
collect_step_skip(acc, res) ==
    IF res.tag = "ok" THEN [done |-> FALSE, acc |-> Append(acc, res.val), res |-> res]
    ELSE [done |-> FALSE, acc |-> acc, res |-> res]

\* One iteration of .map(|id| self.highlight(*id)).collect::<Result<Vec, _>>()
\* and of lib.rs's  let highlight = self.highlight(id)?; push(highlight).
collect_step(acc, res) ==
    IF res.tag = "ok" THEN [done |-> FALSE, acc |-> Append(acc, res.val), res |-> res]
    ELSE [done |-> TRUE, acc |-> acc, res |-> res]

\* update_highlight inserting the fields under a key the signer does not
\* index.
update_highlight_other_key(self, id, body, out) ==
    LET container == {<<"highlight", <<body>>>>}
        r == request(self, <<"/highlights/", id>>, "PATCH", Some(container), out)
    IN  Called(r.sent, try_text_from_str("Highlight", r.res))

update_highlight(self, id, body, out) ==
    LET container == {<<"body", <<body>>>>}
        r == request(self, <<"/highlights/", id>>, "PATCH", Some(container), out)
    IN  Called(r.sent, try_text_from_str("Highlight", r.res))

\* delete_highlight asking the signer for a method it does not match.
delete_highlight_head(self, id, out) ==
    LET r == request(self, <<"/highlights/", id>>, "HEAD", None, out)
    IN  Called(r.sent, IF r.res.tag = "ok" THEN Ok(<<>>) ELSE r.res)

delete_highlight(self, id, out) ==
    LET r == request(self, <<"/highlights/", id>>, "DELETE", None, out)
    IN  Called(r.sent, IF r.res.tag = "ok" THEN Ok(<<>>) ELSE r.res)

(***************************************************************************)
(* lib.rs: the methods of Client.  signed_request returns every response;  *)
(* each method tests the status itself and formats an anyhow! error.       *)
(***************************************************************************)
lib_text_from_str(type, response) ==
    LET t == text(response)
    IN  IF t.tag # "ok" THEN Err(AnyhowReqwest)
        ELSE IF from_str(type, t.val).tag # "ok" THEN Err(AnyhowSerde)
        ELSE from_str(type, t.val)

RECURSIVE push_all(_, _)
push_all(ret, results) ==
    IF results = <<>> THEN ret
    ELSE push_all(Append(ret, Head(results)), Tail(results))

lib_books(self, page, out) ==
    LET r == lib_signed_request(<<"/books?page=", page>>, self.access_token,
                                "GET", None, out)
    IN  IF r.res.tag # "ok" THEN r
        ELSE IF is_success(r.res.val.status)
             THEN LET d == lib_text_from_str("BooksResponse", r.res.val)
                  IN  Called(r.sent, IF d.tag = "ok"
                                     THEN Ok(push_all(<<>>, d.val.results))
                                     ELSE d)
        ELSE Called(r.sent,
                    Err(AnyhowStatus("Failed to fetch books with status code: {}.",
                                     r.res.val.status)))

lib_highlights(self, page, out) ==
    LET r == lib_signed_request(<<"/highlights?page=", page>>,
                                self.access_token, "GET", None, out)
    IN  IF r.res.tag # "ok" THEN r
        ELSE IF is_success(r.res.val.status)
             THEN LET d == lib_text_from_str("HighlightsResponse", r.res.val)
                  IN  Called(r.sent, IF d.tag = "ok"
                                     THEN Ok(push_all(<<>>, d.val.results))
                                     ELSE d)
        ELSE Called(r.sent,
                    Err(AnyhowStatus("Failed to fetch highlights with status code: {}.",
                                     r.res.val.status)))

lib_book(self, id, out) ==
    LET r == lib_signed_request(<<"/books/", id>>, self.access_token,
                                "GET", None, out)
    IN  IF r.res.tag # "ok" THEN r
        ELSE IF is_success(r.res.val.status)
             THEN Called(r.sent, lib_text_from_str("Book", r.res.val))
        ELSE Called(r.sent, Err(AnyhowId("Failed to fetch book with id: {}", id)))

lib_highlight(self, id, out) ==
    LET r == lib_signed_request(<<"/highlights/", id>>, self.access_token,
                                "GET", None, out)
    IN  IF r.res.tag # "ok" THEN r
        ELSE IF is_success(r.res.val.status)
             THEN Called(r.sent, lib_text_from_str("Highlight", r.res.val))
        ELSE Called(r.sent,
                    Err(AnyhowId("Failed to fetch highlight with id: {}", id)))

\* The POST of create and the identifiers it yields: one list per record,
\* walked by the nested for loops.
lib_create_post(self, items, out) ==
    LET body == {<<"highlights", items>>}
        r == lib_signed_request(<<"/highlights">>, self.access_token,
                                "POST", Some(body), out)
    IN  IF r.res.tag # "ok" THEN r
        ELSE IF is_success(r.res.val.status)
             THEN LET d == lib_text_from_str("Vec<HighlightCreateResponse>",
                                             r.res.val)
                  IN  Called(r.sent,
                             IF d.tag = "ok"
                             THEN Ok([i \in 1..Len(d.val) |->
                                         d.val[i].modified_highlights])
                             ELSE d)
        ELSE Called(r.sent,
                    Err(AnyhowStatus("Failed to create new highlights: {}",
                                     r.res.val.status)))

lib_update(self, id, body, out) ==
    LET container == {<<"body", push_all(<<>>, <<body>>)>>}
        r == lib_signed_request(<<"/highlights/", id>>, self.access_token,
                                "PATCH", Some(container), out)
    IN  IF r.res.tag # "ok" THEN r
        ELSE IF is_success(r.res.val.status)
             THEN Called(r.sent, lib_text_from_str("Highlight", r.res.val))
        ELSE Called(r.sent,
                    Err(AnyhowId("Failed to update highlight with id: {}", id)))

lib_delete(self, id, out) ==
    LET r == lib_signed_request(<<"/highlights/", id>>, self.access_token,
                                "DELETE", None, out)
    IN  IF r.res.tag # "ok" THEN r
        ELSE IF is_success(r.res.val.status) THEN Called(r.sent, Ok(<<>>))
        ELSE Called(r.sent,
                    Err(AnyhowId("Failed to delete highlight with id: {}", id)))

(***************************************************************************)
(* The state machine.  client is None or Some(Client); op is the call in   *)
(* progress or the last one made, log its HTTP exchanges in order, pending *)
(* the identifiers create_highlights has still to fetch, fetched the       *)
(* highlights it has collected, result what the call returned.  pc is      *)
(* "idle" when the caller is about to make a call, "fanout" inside         *)
(* create_highlights, "returned" when a call has handed its result to the  *)
(* caller and "aborted" after a panic.                                     *)
(***************************************************************************)
Crates == {"client.rs", "lib.rs"}

NoResult == [tag |-> "none", val |-> <<>>]

Op(name, args) == [name |-> name, args |-> args]

Init ==
    /\ crate \in Crates
    /\ client = None
    /\ pc = "idle"
    /\ op = Op("none", <<>>)
    /\ log = <<>>
    /\ pending = <<>>
    /\ fetched = <<>>
    /\ result = NoResult

AfterCall(res) == IF res.tag = "panic" THEN "aborted" ELSE "returned"

\* A function returning a Client: the caller holds it when the result is Ok.
Constructed(o, called) ==
    /\ op' = o
    /\ log' = called.sent
    /\ result' = called.res
    /\ client' = IF called.res.tag = "ok" THEN Some(called.res.val) ELSE None
    /\ pc' = AfterCall(called.res)
    /\ pending' = <<>>
    /\ fetched' = <<>>
    /\ UNCHANGED crate

\* Return with the handle given up when the call failed.
Return_consuming(o, exchanges, res) ==
    /\ op' = o
    /\ log' = exchanges
    /\ result' = res
    /\ pc' = AfterCall(res)
    /\ pending' = <<>>
    /\ fetched' = <<>>
    /\ client' = IF res.tag = "err" THEN None ELSE client
    /\ UNCHANGED crate

\* A method of Client returning: the receiver is &self.
Return(o, exchanges, res) ==
    /\ op' = o
    /\ log' = exchanges
    /\ result' = res
    /\ pc' = AfterCall(res)
    /\ pending' = <<>>
    /\ fetched' = <<>>
    /\ client' = client
    /\ UNCHANGED crate

Callable == pc = "idle" /\ client # None

ClientNew ==
    /\ pc = "idle" /\ client = None /\ crate = "client.rs"
    /\ \E t \in Tokens, out \in Outcomes({}) :
          Constructed(Op("Client::new", <<t>>), client_new(t, out))

Auth ==
    /\ pc = "idle" /\ client = None /\ crate = "client.rs"
    /\ \E t \in Tokens, out \in Outcomes({}) :
          Constructed(Op("auth", <<t>>), auth(t, out))

LibAuth ==
    /\ pc = "idle" /\ client = None /\ crate = "lib.rs"
    /\ \E t \in Tokens, out \in Outcomes({}) :
          Constructed(Op("auth", <<t>>), lib_auth(t, out))

Books ==
    /\ Callable
    /\ \E page \in Pages, out \in Outcomes(BooksPages) :
          LET c == IF crate = "lib.rs" THEN lib_books(client[1], page, out)
                   ELSE books(client[1], page, out)
          IN  Return(Op("books", <<page>>), c.sent, c.res)

Highlights ==
    /\ Callable
    /\ \E page \in Pages, out \in Outcomes(HighlightsPages) :
          LET c == IF crate = "lib.rs" THEN lib_highlights(client[1], page, out)
                   ELSE highlights(client[1], page, out)
          IN  Return(Op("highlights", <<page>>), c.sent, c.res)

GetBook ==
    /\ Callable
    /\ \E id \in Ids, out \in Outcomes(BookBodies) :
          LET c == IF crate = "lib.rs" THEN lib_book(client[1], id, out)
                   ELSE book(client[1], id, out)
          IN  Return(Op("book", <<id>>), c.sent, c.res)

GetHighlight ==
    /\ Callable
    /\ \E id \in Ids, out \in Outcomes(HighlightBodies) :
          LET c == IF crate = "lib.rs" THEN lib_highlight(client[1], id, out)
                   ELSE highlight(client[1], id, out)
          IN  Return(Op("highlight", <<id>>), c.sent, c.res)

UpdateHighlight ==
    /\ Callable
    /\ \E id \in Ids, fields \in FieldMaps, out \in Outcomes(HighlightBodies) :
          LET c == IF crate = "lib.rs"
                   THEN lib_update(client[1], id, fields, out)
                   ELSE update_highlight(client[1], id, fields, out)
          IN  Return(Op("update_highlight", <<id, fields>>), c.sent, c.res)

DeleteHighlight ==
    /\ Callable
    /\ \E id \in Ids, out \in Outcomes({}) :
          LET c == IF crate = "lib.rs" THEN lib_delete(client[1], id, out)
                   ELSE delete_highlight(client[1], id, out)
          IN  Return(Op("delete_highlight", <<id>>), c.sent, c.res)

\* The identifier lists still to walk, empty lists at the front skipped.
RECURSIVE Remaining(_)
Remaining(lists) ==
    IF lists = <<>> THEN <<>>
    ELSE IF Len(Head(lists)) = 0 THEN Remaining(Tail(lists))
    ELSE lists

\* create_highlights up to the point where the POST has been answered and
\* decoded; it returns at once when there is nothing to fetch.
CreateHighlights ==
    /\ Callable
    /\ \E items \in ItemLists, out \in Outcomes(CreatedBodies) :
          LET c == IF crate = "lib.rs"
                   THEN lib_create_post(client[1], items, out)
                   ELSE create_highlights_post(client[1], items, out)
              o == Op("create_highlights", <<items>>)
          IN  IF c.res.tag # "ok" THEN Return(o, c.sent, c.res)
              ELSE IF Remaining(c.res.val) = <<>>
                   THEN Return(o, c.sent, Ok(<<>>))
              ELSE /\ op' = o
                   /\ log' = c.sent
                   /\ result' = Running
                   /\ pc' = "fanout"
                   /\ pending' = Remaining(c.res.val)
                   /\ fetched' = <<>>
                   /\ UNCHANGED <<crate, client>>

\* One follow-up self.highlight(id) of create_highlights, and the return of
\* the call when that was the last identifier or the fetch failed.
FollowUp ==
    /\ pc = "fanout"
    /\ LET id == Head(Head(pending))
           rest == Remaining(<<Tail(Head(pending))>> \o Tail(pending))
       IN  \E out \in Outcomes({Body("Highlight", Highlight(id))}) :
              LET c == IF crate = "lib.rs" THEN lib_highlight(client[1], id, out)
                       ELSE highlight(client[1], id, out)
                  step == collect_step(fetched, c.res)
              IN  IF step.done THEN Return(op, log \o c.sent, step.res)
                  ELSE IF rest = <<>>
                       THEN Return(op, log \o c.sent, Ok(step.acc))
                  ELSE /\ log' = log \o c.sent
                       /\ fetched' = step.acc
                       /\ pending' = rest
                       /\ UNCHANGED <<crate, client, pc, op, result>>

\* The caller takes the result of the call and goes on to its next call.
Proceed ==
    /\ pc = "returned"
    /\ pc' = "idle"
    /\ op' = Op("none", <<>>)
    /\ log' = <<>>
    /\ result' = NoResult
    /\ UNCHANGED <<crate, client, pending, fetched>>

Next ==
    \/ Proceed
    \/ ClientNew
    \/ Auth
    \/ LibAuth
    \/ Books
    \/ Highlights
    \/ GetBook
    \/ GetHighlight
    \/ CreateHighlights
    \/ FollowUp
    \/ UpdateHighlight
    \/ DeleteHighlight

Spec == Init /\ [][Next]_vars

(***************************************************************************)
(* The request signers applied on their own.  signed_request of request.rs *)
(* is a pub fn of the crate; Client::request and lib.rs's signed_request   *)
(* are private and reached this way from within their modules (the tests   *)
(* build a Client directly).  The inputs are drawn from small sets: any    *)
(* token, a method the signers match or not, and a body that is absent,    *)
(* lacks the key body, holds an empty list, or holds one or two maps.      *)
(***************************************************************************)
SignerMethods == {"GET", "POST", "PATCH", "DELETE", "PUT"}

SignerBodies ==
    { None,
      Some({}),
      Some({<<"body", <<>>>>}),
      Some({<<"body", <<{<<"text", "hello, world!">>}>>>>}),
      Some({<<"body", <<{<<"note", "n">>}, {<<"text", "hello, world!">>}>>>>}),
      Some({<<"highlights", <<{<<"text", "hello world!">>}>>>>}) }

SignerEndpoints == {<<"/highlights">>, <<"/highlights/", 1>>}

Applied(o, called) == Return(o, called.sent, called.res)

DirectRequest ==
    /\ pc = "idle" /\ crate = "client.rs"
    /\ \E e \in SignerEndpoints, t \in Tokens, m \in SignerMethods,
          b \in SignerBodies, out \in Outcomes({}) :
          Applied(Op("request", <<e, t, m, b>>),
                  request(Client(t), e, m, b, out))

DirectSignedRequest ==
    /\ pc = "idle" /\ crate = "client.rs"
    /\ \E e \in SignerEndpoints, t \in Tokens, m \in SignerMethods,
          b \in SignerBodies, out \in Outcomes({}) :
          Applied(Op("signed_request", <<e, t, m, b>>),
                  signed_request(e, t, m, b, out))

DirectLibSignedRequest ==
    /\ pc = "idle" /\ crate = "lib.rs"
    /\ \E e \in SignerEndpoints, t \in Tokens, m \in SignerMethods,
          b \in SignerBodies, out \in Outcomes({}) :
          Applied(Op("signed_request", <<e, t, m, b>>),
                  lib_signed_request(e, t, m, b, out))

SignerNext ==
    \/ Next
    \/ DirectRequest
    \/ DirectSignedRequest
    \/ DirectLibSignedRequest

SignerSpec == Init /\ [][SignerNext]_vars

(***************************************************************************)
(* Properties.  They read the call (op), its exchanges (log) and what it   *)
(* returned (result).                                                      *)
(***************************************************************************)
Returned(name) == pc = "returned" /\ op.name = name

Last(l) == l[Len(l)]

Answered2xx(x) == ~x.out.fail /\ x.out.status \in 200..299
AnsweredNon2xx(x) == ~x.out.fail /\ x.out.status \notin 200..299
RequestFailed(x) == x.out.fail \/ x.out.status \notin 200..299

IsGet(x, path) ==
    /\ x.req.method = "GET"
    /\ x.req.url = <<"https://readwise.io", "/api/v2">> \o path
    /\ x.req.body = None

\* The records of the create response the POST was answered with.
Records == log[1].out.body.v
PostDecoded ==
    /\ Len(log) >= 1
    /\ log[1].req.method = "POST"
    /\ log[1].req.url = <<"https://readwise.io", "/api/v2", "/highlights">>
    /\ Answered2xx(log[1])
    /\ log[1].out.body.t = "Vec<HighlightCreateResponse>"

\* The number of ids in the records before record i.
RECURSIVE Offset(_, _)
Offset(recs, i) ==
    IF i <= 1 THEN 0
    ELSE Offset(recs, i - 1) + Len(recs[i - 1].modified_highlights)
Total(recs) == Offset(recs, Len(recs) + 1)

\* A follow-up GET that did not yield a highlight.
FetchFailed(x) == RequestFailed(x) \/ x.out.body.t # "Highlight"

\* C1: in create_highlights every request after the first is the GET
\* /highlights/{id} of the id at its place in the flattened id list (record
\* order, then order inside the record), the first is the POST and was
\* answered 2xx with decodable records before any GET, and a call that
\* returns Ok has sent one GET per id occurrence and returns the highlights
\* the GETs were answered with, in that order.
C1_CreateFetchesInOrder ==
    (op.name = "create_highlights" /\ pc \in {"fanout", "returned"}) =>
        /\ (pc = "fanout" \/ Len(log) >= 2 \/ result.tag = "ok") => PostDecoded
        /\ Len(log) >= 2 =>
              /\ Len(log) - 1 <= Total(Records)
              /\ \A i \in 1..Len(Records) :
                    \A j \in 1..Len(Records[i].modified_highlights) :
                       Offset(Records, i) + j + 1 <= Len(log) =>
                          IsGet(log[Offset(Records, i) + j + 1],
                                <<"/highlights/",
                                  Records[i].modified_highlights[j]>>)
        /\ (pc = "returned" /\ result.tag = "ok") =>
              /\ Len(log) = 1 + Total(Records)
              /\ Len(result.val) = Total(Records)
              /\ \A k \in 1..Len(result.val) :
                    /\ Answered2xx(log[k + 1])
                    /\ log[k + 1].out.body.t = "Highlight"
                    /\ result.val[k] = log[k + 1].out.body.v

C1_Witness ==
    /\ Returned("create_highlights")
    /\ result.tag = "ok"
    /\ Len(log) = 4
    /\ Len(Records) = 2
    /\ Records[1].modified_highlights = <<2, 1>>
    /\ Records[2].modified_highlights = <<2>>
    /\ Len(op.args[1]) = 1

\* C2: when a follow-up GET of create_highlights fails (transport failure,
\* non-2xx status, unreadable or undecodable body), at any place in the id
\* list, the call returns an error; a call that returns a list returns one
\* as long as the id list, never a shorter one.
C2_NoPartialResult ==
    Returned("create_highlights") =>
        /\ (\E k \in 2..Len(log) : FetchFailed(log[k])) => result.tag = "err"
        /\ result.tag \in {"ok", "err"}
        /\ result.tag = "ok" => Len(result.val) = Total(Records)

C2_Witness ==
    /\ Returned("create_highlights")
    /\ Len(log) = 3
    /\ ~FetchFailed(log[2])
    /\ FetchFailed(log[3])
    /\ result.tag = "err"

\* C3: Client::new and auth of auth.rs send one GET to <base>/api/v2/auth
\* signed with the given token; answered 2xx they return a Client holding
\* exactly that token; answered non-2xx they return no Client but the
\* bad-status error holding the status.
C3_Authentication ==
    (crate = "client.rs" /\ pc = "returned" /\ op.name \in {"Client::new", "auth"}) =>
        /\ Len(log) <= 1
        /\ Len(log) = 1 =>
              /\ IsGet(log[1], <<"/auth">>)
              /\ log[1].req.headers =
                    {<<"authorization", <<"Token ", op.args[1]>>>>}
              /\ Answered2xx(log[1]) =>
                    /\ result.tag = "ok"
                    /\ client = <<[access_token |-> op.args[1]]>>
              /\ AnsweredNon2xx(log[1]) =>
                    /\ client = <<>>
                    /\ result.tag = "err"
                    /\ result.val.kind = "BadRequest"
                    /\ result.val.status = <<log[1].out.status>>

C3_Witness ==
    /\ Returned("Client::new")
    /\ Len(log) = 1
    /\ log[1].out.status = 401
    /\ ~log[1].out.fail
    /\ result.tag = "err"
    /\ client = <<>>
    /\ op.args[1] = "token2"

\* C4: whenever the last request of a call is answered with a non-2xx
\* status s, the call returns an error value that holds s.
C4_StatusCarried ==
    (pc = "returned" /\ Len(log) >= 1 /\ AnsweredNon2xx(Last(log))) =>
        /\ result.tag = "err"
        /\ result.val.status = <<Last(log).out.status>>

\* C5 as claimed: update_highlight sends PATCH /highlights/{id} with the JSON
\* body {"body": [fields]} and, answered 2xx, returns the decoded highlight.
C5_PatchBodyWrapped ==
    (Returned("update_highlight") /\ Len(log) = 1) =>
        /\ log[1].req.method = "PATCH"
        /\ log[1].req.url =
              <<"https://readwise.io", "/api/v2", "/highlights/", op.args[1]>>
        /\ log[1].req.body =
              <<JObj({<<"body", JArr(<<ToJsonFields(op.args[2])>>)>>})>>
        /\ (Answered2xx(log[1]) /\ log[1].out.body.t = "Highlight") =>
              result = Ok(log[1].out.body.v)

\* C5 as amended: update_highlight sends exactly one PATCH /highlights/{id}
\* whose JSON body is the fields map itself (the first element of the list
\* it wrapped under the key body) and, answered 2xx, returns the decoded
\* highlight.
C5_PatchBodyIsFields ==
    Returned("update_highlight") =>
        /\ Len(log) = 1
        /\ log[1].req.method = "PATCH"
        /\ log[1].req.url =
              <<"https://readwise.io", "/api/v2", "/highlights/", op.args[1]>>
        /\ log[1].req.body =
              <<JObj({<<p[1], JStr(p[2])>> : p \in op.args[2]})>>
        /\ (Answered2xx(log[1]) /\ log[1].out.body.t = "Highlight") =>
              result = Ok(log[1].out.body.v)

C5_Witness ==
    /\ Returned("update_highlight")
    /\ Cardinality(op.args[2]) = 2
    /\ Len(log) = 1
    /\ Answered2xx(log[1])
    /\ log[1].out.body.t = "Highlight"
    /\ result.tag = "ok"
    /\ result.val.id # op.args[1]

\* C6: books(page) and highlights(page) send exactly one request, the GET
\* of /books?page={page} or /highlights?page={page}, and answered 2xx with
\* an envelope return its results list unchanged, whatever its next cursor.
C6_ListReturnsResults ==
    (pc = "returned" /\ op.name \in {"books", "highlights"}) =>
        /\ Len(log) = 1
        /\ IsGet(log[1], <<(IF op.name = "books" THEN "/books?page="
                            ELSE "/highlights?page="), op.args[1]>>)
        /\ (Answered2xx(log[1]) /\ log[1].out.body.t \in
                {"BooksResponse", "HighlightsResponse"}) =>
              result = Ok(log[1].out.body.v.results)

C6_Witness ==
    /\ Returned("books")
    /\ op.args[1] = 1
    /\ Len(log) = 1
    /\ Answered2xx(log[1])
    /\ log[1].out.body.t = "BooksResponse"
    /\ log[1].out.body.v.next # <<>>
    /\ Len(result.val) = 2
    /\ result.val[1].id = 2
    /\ result.val[2].id = 1

\* The token the requests of the current call are to be signed with, and the
\* paths the call may request.
SigningToken ==
    IF op.name \in {"Client::new", "auth"} THEN op.args[1]
    ELSE client[1].access_token

PathsOf(k) ==
    CASE op.name \in {"Client::new", "auth"} -> {<<"/auth">>}
      [] op.name = "books" -> {<<"/books?page=", op.args[1]>>}
      [] op.name = "highlights" -> {<<"/highlights?page=", op.args[1]>>}
      [] op.name = "book" -> {<<"/books/", op.args[1]>>}
      [] op.name \in {"highlight", "update_highlight", "delete_highlight"} ->
            {<<"/highlights/", op.args[1]>>}
      [] op.name = "create_highlights" ->
            IF k = 1 THEN {<<"/highlights">>}
            ELSE {<<"/highlights/", i>> : i \in Ids}
      [] OTHER -> {}

\* C7: every request sent targets <base>/api/v2<path> for a path of the
\* call, and its only header is Authorization: Token <t>, t the token of
\* the Client (for an authentication, the token being authenticated).
C7_SignedRequests ==
    \A k \in 1..Len(log) :
        /\ Len(log[k].req.url) = 2 + Len(CHOOSE q \in PathsOf(k) : TRUE)
        /\ \E path \in PathsOf(k) :
              log[k].req.url = <<"https://readwise.io", "/api/v2">> \o path
        /\ log[k].req.headers = {<<"authorization", <<"Token ", SigningToken>>>>}

C7_Witness ==
    /\ op.name = "create_highlights"
    /\ pc = "returned"
    /\ Len(log) = 3
    /\ client[1].access_token = "token2"
    /\ log[3].req.url[4] = 2

SingleRequestOps ==
    {"Client::new", "auth", "books", "highlights", "book", "highlight",
     "update_highlight", "delete_highlight"}

NoRequestAfterFailure ==
    /\ \A k \in 1..(Len(log) - 1) : ~RequestFailed(log[k])
    /\ (pc = "returned" /\ Len(log) >= 1 /\ RequestFailed(Last(log))) =>
          result.tag = "err"

\* C8 as claimed: a failed request is the last of its call and the call
\* returns an error; a returned single-request operation has sent exactly
\* one request.
C8_ExactlyOneRequest ==
    /\ NoRequestAfterFailure
    /\ (pc = "returned" /\ op.name \in SingleRequestOps) => Len(log) = 1

\* C8 as amended: a failed request is the last of its call and the call
\* returns an error; a single-request operation sends at most one request:
\* exactly one when the Authorization header can be built from the token,
\* none when it cannot.
C8_AtMostOneRequest ==
    /\ NoRequestAfterFailure
    /\ (pc \in {"returned", "aborted"} /\ op.name \in SingleRequestOps) =>
          /\ Len(log) <= 1
          /\ Len(log) = 1 <=> SigningToken # "bad\ntoken"

C8_Witness ==
    /\ Returned("Client::new")
    /\ op.args[1] = "bad\ntoken"
    /\ Len(log) = 0
    /\ result.tag = "err"
    /\ result.val.kind = "HeaderValue"

\* C9: once constructed, the Client is never changed by any step: its
\* access token stays the one it was constructed with.
C9_ClientImmutable == [][client # <<>> => client' = client]_vars

C9_Witness ==
    /\ Returned("create_highlights")
    /\ client = <<[access_token |-> "token2"]>>
    /\ Len(log) = 2
    /\ result.tag = "err"

\* What self.highlight(id) returns for the exchange x.
FetchResult(x) ==
    IF crate = "lib.rs" THEN lib_highlight(client[1], x.req.url[4], x.out).res
    ELSE highlight(client[1], x.req.url[4], x.out).res

\* C10: in create_highlights a follow-up GET that fails is the last request
\* of the call, and the call returns the error of that GET.
C10_EarlyTermination ==
    op.name = "create_highlights" =>
        /\ \A k \in 2..(Len(log) - 1) : ~FetchFailed(log[k])
        /\ (pc = "returned" /\ Len(log) >= 2 /\ FetchFailed(Last(log))) =>
              /\ result.tag = "err"
              /\ result = FetchResult(Last(log))

C10_Witness ==
    /\ Returned("create_highlights")
    /\ Len(log) = 3
    /\ Total(Records) = 4
    /\ AnsweredNon2xx(log[3])
    /\ log[3].out.status = 404
    /\ result.tag = "err"

(***************************************************************************)
(* Properties of the request signers, read from a direct application: op   *)
(* holds <<endpoint, token, method, body>>.                                *)
(***************************************************************************)
Direct == op.name \in {"request", "signed_request"}
GivenToken == op.args[2]
GivenMethod == op.args[3]
GivenBody == op.args[4]

JsonOfMap(m) == JObj({<<q[1], JStr(q[2])>> : q \in m})

\* C11: the signer chooses the body it sends from the method alone: for
\* POST the given body as it is, for PATCH the first element of the list
\* under the key body and not the wrapping map, for GET and DELETE no body
\* even when one is given.
C11_BodyByMethod ==
    /\ \A k \in 1..Len(log) :
          log[k].req.method \in {"GET", "DELETE"} <=> log[k].req.body = None
    /\ (Direct /\ Len(log) = 1) =>
          /\ log[1].req.method = GivenMethod
          /\ GivenMethod \in {"GET", "DELETE"} => log[1].req.body = None
          /\ GivenMethod = "POST" =>
                /\ GivenBody # None
                /\ log[1].req.body =
                      <<JObj({<<p[1], JArr([i \in 1..Len(p[2]) |->
                                               JsonOfMap(p[2][i])])>> :
                              p \in GivenBody[1]})>>
          /\ GivenMethod = "PATCH" =>
                /\ GivenBody # None
                /\ \E p \in GivenBody[1] :
                      /\ p[1] = "body"
                      /\ Len(p[2]) >= 1
                      /\ log[1].req.body = <<JsonOfMap(p[2][1])>>

C11_Witness ==
    /\ Returned("request")
    /\ GivenMethod = "GET"
    /\ GivenBody # None
    /\ Len(log) = 1
    /\ log[1].req.body = None
    /\ result.tag = "ok"

\* The token a call signs with: the one given to an authentication or to a
\* signer applied on its own, the receiver's otherwise.
TokenOfCall ==
    IF op.name \in {"Client::new", "auth"} THEN op.args[1]
    ELSE IF Direct THEN GivenToken
    ELSE client[1].access_token

Finished == pc \in {"returned", "aborted"}

\* C12: when the token does not make a valid Authorization header value,
\* the authentication and every request return the header-construction
\* error as a value, no HTTP request is sent, and nothing panics.
C12_HeaderErrorIsValue ==
    (Finished /\ TokenOfCall \in InvalidHeaderTokens) =>
        /\ pc = "returned"
        /\ result.tag = "err"
        /\ result.val.kind = "HeaderValue"
        /\ Len(log) = 0

PublicOps ==
    {"Client::new", "auth", "books", "highlights", "book", "highlight",
     "create_highlights", "update_highlight", "delete_highlight"}

\* C13: through the public operations the signer is only ever given GET,
\* POST, PATCH or DELETE: every call whose header value could be built
\* gets past the match on the method and sends its request, no call
\* returns UnsupportedRequest, and none aborts on an unsupported method.
C13_UnsupportedUnreachable ==
    op.name \in PublicOps =>
        /\ \A k \in 1..Len(log) :
              log[k].req.method \in {"GET", "POST", "PATCH", "DELETE"}
        /\ result.tag = "err" => result.val.kind # "UnsupportedRequest"
        /\ (Finished /\ TokenOfCall \notin InvalidHeaderTokens) =>
              /\ Len(log) >= 1
              /\ pc = "returned"

C13_Witness ==
    /\ Returned("delete_highlight")
    /\ crate = "client.rs"
    /\ Len(log) = 1
    /\ log[1].req.method = "DELETE"
    /\ result.tag = "ok"

\* C14: in create_highlights a GET /highlights/{id} is only sent after the
\* POST of the same call was answered 2xx with a body that decodes as a
\* list of create-response records; when the POST fails in transport, is
\* answered non-2xx or its body does not decode, the call returns the error
\* of that failure having sent the POST and nothing else.
C14_NoFetchBeforeDecodedPost ==
    op.name = "create_highlights" =>
        /\ Len(log) >= 2 => PostDecoded
        /\ \A k \in 2..Len(log) :
              \E id \in Ids : IsGet(log[k], <<"/highlights/", id>>)
        /\ (Finished /\ ~PostDecoded) =>
              /\ pc = "returned"
              /\ Len(log) = 1
              /\ log[1].req.method = "POST"
              /\ result.tag = "err"
              /\ log[1].out.fail =>
                    result.val.kind \in {"Client", "anyhow:reqwest"}
              /\ AnsweredNon2xx(log[1]) =>
                    result.val.status = Some(log[1].out.status)
              /\ (Answered2xx(log[1]) /\ log[1].out.body.t = "unreadable") =>
                    result.val.kind \in {"Client", "anyhow:reqwest"}
              /\ (Answered2xx(log[1]) /\ log[1].out.body.t # "unreadable") =>
                    result.val.kind \in {"Deserialize", "anyhow:serde_json"}

C14_Witness ==
    /\ Returned("create_highlights")
    /\ Len(log) = 1
    /\ Answered2xx(log[1])
    /\ log[1].out.body = BGarbage
    /\ result.tag = "err"
    /\ result.val.kind = "Deserialize"

\* The body the signer cannot take for its method: absent for POST and
\* PATCH, and for PATCH also without the key body or with an empty list.
BodyUnusable(method, body) ==
    \/ body = None
    \/ /\ method = "PATCH"
       /\ \/ \A p \in body[1] : p[1] # "body"
          \/ \E p \in body[1] : p[1] = "body" /\ p[2] = <<>>

\* C15: a signer that has built its header value and is given POST or
\* PATCH aborts, before sending anything, exactly when the body is absent
\* or, for PATCH, lacks the key body or holds an empty list under it; no
\* public operation gets there: create_highlights and update_highlight
\* never abort and always send a body, for every input, the empty list of
\* highlights and the empty map of fields included.
C15_BodyPanicsOnlyDirect ==
    /\ (Direct /\ Finished /\ GivenToken \notin InvalidHeaderTokens
           /\ GivenMethod \in {"POST", "PATCH"}) =>
          /\ result.tag = "panic" <=> BodyUnusable(GivenMethod, GivenBody)
          /\ pc = "aborted" <=> BodyUnusable(GivenMethod, GivenBody)
          /\ BodyUnusable(GivenMethod, GivenBody) => Len(log) = 0
          /\ ~BodyUnusable(GivenMethod, GivenBody) => Len(log) = 1
    /\ op.name \in {"create_highlights", "update_highlight"} =>
          /\ pc # "aborted"
          /\ result.tag # "panic"
          /\ Len(log) >= 1
          /\ log[1].req.body # None
          /\ log[1].req.method =
                IF op.name = "update_highlight" THEN "PATCH" ELSE "POST"
    /\ (op.name \in PublicOps /\ pc = "aborted") =>
          TokenOfCall \in InvalidHeaderTokens

C15_Witness ==
    /\ Returned("update_highlight")
    /\ op.args[2] = {}
    /\ Len(log) = 1
    /\ log[1].req.method = "PATCH"
    /\ log[1].req.body = Some(JObj({}))
    /\ result.tag = "ok"

====
